---- MODULE Spec2Model ----
(***************************************************************************)
(* Content moderation service (docker/content-moderator/app.py).           *)
(*                                                                         *)
(* The model follows one run of ContentModerator.comprehensive_scan from   *)
(* the construction of its report to its return, one action per stage,     *)
(* and the daemon exchange of scan_for_malware socket call by socket call. *)
(* Python strings are sequences of one-character strings; an interpolated  *)
(* exception ({e}) is the one-element sequence holding the exception's     *)
(* class name; None is the sequence <<"None">> where a string is expected  *)
(* and the string "None" where a category is expected.                     *)
(***************************************************************************)
EXTENDS Integers, Sequences, FiniteSets, TLC

VARIABLES
    file_path,   \* the argument of comprehensive_scan
    upload,      \* the parts file_path was put together from
    pc,          \* the position of the run in comprehensive_scan
    results,     \* the report under construction
    fileread,    \* what open()/read() did in generate_file_hash
    sniff,       \* what libmagic did in validate_file_type
    stat,        \* what os.path.getsize did in validate_file_size
    sock,        \* the socket of scan_for_malware
    wire,        \* what the daemon exchange did
    response,    \* local `response` of scan_for_malware
    mret,        \* the value scan_for_malware hands back
    image,       \* what PIL saw in analyze_image_content
    trace,       \* the stages entered so far, in order
    raised,      \* the exception that left comprehensive_scan, if any
    returned,    \* whether comprehensive_scan returned its report
    fs,          \* the files under /tmp, each with the request that wrote it
    req,         \* the HTTP requests in flight, each with its own locals
    conns        \* the daemon's connections, each with the reply it queued

scanvars == <<file_path, upload, pc, results, fileread, sniff, stat, sock,
              wire, response, mret, image, trace, raised, returned>>

httpvars == <<fs, req, conns>>

vars == <<scanvars, httpvars>>

----------------------------------------------------------------------------
(* Python built-ins used by the code. *)

None == <<"None">>

Whitespace == {" ", "\n", "\t", "\r"}

UpperCase == <<"A","B","C","D","E","F","G","H","I","J","K","L","M",
               "N","O","P","Q","R","S","T","U","V","W","X","Y","Z">>

LowerCase == <<"a","b","c","d","e","f","g","h","i","j","k","l","m",
               "n","o","p","q","r","s","t","u","v","w","x","y","z">>

\* str.lower() of one character
LowerChar(c) ==
    IF \E i \in 1..Len(UpperCase) : UpperCase[i] = c
    THEN LowerCase[CHOOSE i \in 1..Len(UpperCase) : UpperCase[i] = c]
    ELSE c

\* s.lower()
PyLower(s) == [i \in 1..Len(s) |-> LowerChar(s[i])]

\* t in s
PyIn(t, s) ==
    \E i \in 1..(Len(s) - Len(t) + 1) : SubSeq(s, i, i + Len(t) - 1) = t

\* s.startswith(p)
PyStartsWith(s, p) ==
    /\ Len(p) <= Len(s)
    /\ \A i \in 1..Len(p) : s[i] = p[i]

\* s.rfind(c), counted from 1; 0 when c does not occur
PyRFind(s, c) ==
    IF \E i \in 1..Len(s) : s[i] = c
    THEN CHOOSE i \in 1..Len(s) : s[i] = c /\ \A j \in (i+1)..Len(s) : s[j] # c
    ELSE 0

\* s.find(c), counted from 1; 0 when c does not occur
PyFind(s, c) ==
    IF \E i \in 1..Len(s) : s[i] = c
    THEN CHOOSE i \in 1..Len(s) : s[i] = c /\ \A j \in 1..(i-1) : s[j] # c
    ELSE 0

\* s.split(c): the fields between the occurrences of c
RECURSIVE PySplit(_, _)
PySplit(s, c) ==
    IF PyFind(s, c) = 0
    THEN <<s>>
    ELSE <<SubSeq(s, 1, PyFind(s, c) - 1)>>
             \o PySplit(SubSeq(s, PyFind(s, c) + 1, Len(s)), c)

\* s.lstrip(chars)
RECURSIVE PyLStrip(_, _)
PyLStrip(s, chars) ==
    IF s # <<>> /\ Head(s) \in chars THEN PyLStrip(Tail(s), chars) ELSE s

\* s.rstrip(chars)
RECURSIVE PyRStrip(_, _)
PyRStrip(s, chars) ==
    IF s # <<>> /\ s[Len(s)] \in chars
    THEN PyRStrip(SubSeq(s, 1, Len(s) - 1), chars)
    ELSE s

\* s.strip()
PyStrip(s) == PyRStrip(PyLStrip(s, Whitespace), Whitespace)

\* os.path.splitext(p)[1] on POSIX: the text from the last dot of the last
\* path component, unless that component has only dots before it
splitext(p) ==
    LET sepIndex == PyRFind(p, "/")
        dotIndex == PyRFind(p, ".")
    IN  IF /\ dotIndex > sepIndex
           /\ \E k \in (sepIndex + 1)..(dotIndex - 1) : p[k] # "."
        THEN SubSeq(p, dotIndex, Len(p))
        ELSE <<>>

\* `except Exception`: the exception classes the clause catches.  Every
\* fault the stages can meet is a subclass of Exception.
ExceptionClasses ==
    {"FileNotFoundError", "PermissionError", "MagicException", "OSError",
     "ConnectionRefusedError", "socket.timeout", "socket.gaierror",
     "BrokenPipeError", "ConnectionResetError", "UnicodeDecodeError",
     "IndexError", "UnidentifiedImageError"}

\* as if the clauses read `except OSError`
ExceptOSErrorOnly(e) ==
    e \in {"FileNotFoundError", "PermissionError", "OSError",
           "ConnectionRefusedError", "socket.timeout", "socket.gaierror",
           "BrokenPipeError", "ConnectionResetError"}

ExceptException(e) == e \in ExceptionClasses

----------------------------------------------------------------------------
(* Configuration *)

Categories == <<"image", "video", "document">>

ALLOWED_EXTENSIONS ==
    [c \in {"image", "video", "document"} |->
        CASE c = "image" ->
               {<<"j","p","g">>, <<"j","p","e","g">>, <<"p","n","g">>, <<"g","i","f">>, <<"b","m","p">>, <<"w","e","b","p">>}
          [] c = "video" ->
               {<<"m","p","4">>, <<"a","v","i">>, <<"m","o","v">>, <<"w","m","v">>, <<"f","l","v">>, <<"w","e","b","m">>}
          [] c = "document" ->
               {<<"p","d","f">>, <<"d","o","c">>, <<"d","o","c","x">>, <<"t","x","t">>, <<"r","t","f">>, <<"o","d","t">>}]

MAX_FILE_SIZE == 10 * 1024 * 1024

mime_categories ==
    [c \in {"image", "video", "document"} |->
        CASE c = "image" -> <<<<"i","m","a","g","e","/">>>>
          [] c = "video" -> <<<<"v","i","d","e","o","/">>>>
          [] c = "document" -> <<<<"a","p","p","l","i","c","a","t","i","o","n","/","p","d","f">>, <<"a","p","p","l","i","c","a","t","i","o","n","/","m","s","w","o","r","d">>,
                                 <<"t","e","x","t","/">>, <<"a","p","p","l","i","c","a","t","i","o","n","/","v","n","d",".">>>>]

----------------------------------------------------------------------------
(* validate_file_type *)

\* _mime_matches_extension: the first prefix of the category that the MIME
\* type starts with decides
RECURSIVE PrefixLoop(_, _, _)
PrefixLoop(mime_type, prefixes, i) ==
    IF i > Len(prefixes) THEN FALSE
    ELSE IF PyStartsWith(mime_type, prefixes[i]) THEN TRUE
    ELSE PrefixLoop(mime_type, prefixes, i + 1)

\* as if the extension alone decided
mime_check_skipped(mime_type, category) == TRUE

\* as if the test read `prefix.startswith(mime_type)`
RECURSIVE PrefixLoopSwapped(_, _, _)
PrefixLoopSwapped(mime_type, prefixes, i) ==
    IF i > Len(prefixes) THEN FALSE
    ELSE IF PyStartsWith(prefixes[i], mime_type) THEN TRUE
    ELSE PrefixLoopSwapped(mime_type, prefixes, i + 1)

mime_matches_swapped(mime_type, category) ==
    PrefixLoopSwapped(mime_type, mime_categories[category], 1)

mime_matches_extension(mime_type, category) ==
    PrefixLoop(mime_type, mime_categories[category], 1)

\* the loop over ALLOWED_EXTENSIONS.items(), in the dict's order
RECURSIVE CategoryLoop(_, _, _)
CategoryLoop(ext, mime_type, i) ==
    IF i > Len(Categories) THEN "None"
    ELSE IF /\ ext \in ALLOWED_EXTENSIONS[Categories[i]]
            /\ mime_matches_extension(mime_type, Categories[i])
         THEN Categories[i]
         ELSE CategoryLoop(ext, mime_type, i + 1)

\* validate_file_type(path) when libmagic behaves as s says
validate_file_type(path, s) ==
    IF s.fault # "none"
    THEN IF ExceptException(s.fault)
         THEN [exc |-> "none", valid |-> FALSE, category |-> "None",
               mime_type |-> None]
         ELSE [exc |-> s.fault, valid |-> FALSE, category |-> "None",
               mime_type |-> None]
    ELSE LET ext == PyLStrip(PyLower(splitext(path)), {"."})
             category == CategoryLoop(ext, s.mime, 1)
         IN  [exc |-> "none", valid |-> category # "None",
              category |-> category, mime_type |-> s.mime]

----------------------------------------------------------------------------
(* validate_file_size *)

\* as if the comparison read `size < max_size`
validate_file_size_strict(st, max_size) ==
    IF st.fault # "none"
    THEN IF ExceptException(st.fault)
         THEN [exc |-> "none", valid |-> FALSE, size |-> 0]
         ELSE [exc |-> st.fault, valid |-> FALSE, size |-> 0]
    ELSE [exc |-> "none", valid |-> st.size < max_size, size |-> st.size]

validate_file_size(st, max_size) ==
    IF st.fault # "none"
    THEN IF ExceptException(st.fault)
         THEN [exc |-> "none", valid |-> FALSE, size |-> 0]
         ELSE [exc |-> st.fault, valid |-> FALSE, size |-> 0]
    ELSE [exc |-> "none", valid |-> st.size <= max_size, size |-> st.size]

----------------------------------------------------------------------------
(* scan_for_malware *)

RECV_BUFSIZE == 1024

\* as if a failed scan were let through
scan_for_malware_fail_open(e) ==
    [exc |-> "none", clean |-> TRUE, details |-> <<"S","c","a","n"," ","e","r","r","o","r",":"," ">> \o <<e>>]

\* the except clause of scan_for_malware
scan_for_malware_except(e) ==
    IF ExceptException(e)
    THEN [exc |-> "none", clean |-> FALSE,
          details |-> <<"S","c","a","n"," ","e","r","r","o","r",":"," ">> \o <<e>>]
    ELSE [exc |-> e, clean |-> FALSE, details |-> None]

\* bytes.decode(): UTF-8 text is kept as it is, an invalid byte raises
InvalidByte == "\\xff"

DecodeFails(bytes) == \E i \in 1..Len(bytes) : bytes[i] = InvalidByte

\* sock.recv(1024): at most RECV_BUFSIZE bytes of what the daemon sent
Recv(sent) ==
    IF Len(sent) <= RECV_BUFSIZE THEN sent ELSE SubSeq(sent, 1, RECV_BUFSIZE)

\* the parse of the decoded, stripped response
ParseResponse(resp) ==
    IF PyIn(<<"O","K">>, resp)
    THEN [exc |-> "none", clean |-> TRUE, details |-> <<"C","l","e","a","n">>]
    ELSE IF PyIn(<<"F","O","U","N","D">>, resp)
    THEN IF Len(PySplit(resp, ":")) < 2
         THEN scan_for_malware_except("IndexError")
         ELSE [exc |-> "none", clean |-> FALSE,
               details |-> PyStrip(PySplit(resp, ":")[2])]
    ELSE [exc |-> "none", clean |-> FALSE, details |-> <<"S","c","a","n"," ","f","a","i","l","e","d">>]

----------------------------------------------------------------------------
(* analyze_image_content *)

MIN_DIMENSION == 10

MAX_DIMENSION == 10000

\* as if the bounds were tested with <= and >=
analyze_image_content_off_by_one(img) ==
    IF img.fault # "none"
    THEN [exc |-> "none", safe |-> FALSE,
          details |-> <<"A","n","a","l","y","s","i","s"," ","e","r","r","o","r",":"," ">> \o <<img.fault>>]
    ELSE IF img.width <= MIN_DIMENSION \/ img.height <= MIN_DIMENSION
    THEN [exc |-> "none", safe |-> FALSE, details |-> <<"I","m","a","g","e"," ","t","o","o"," ","s","m","a","l","l">>]
    ELSE IF img.width >= MAX_DIMENSION \/ img.height >= MAX_DIMENSION
    THEN [exc |-> "none", safe |-> FALSE, details |-> <<"I","m","a","g","e"," ","t","o","o"," ","l","a","r","g","e">>]
    ELSE [exc |-> "none", safe |-> TRUE, details |-> <<"I","m","a","g","e"," ","a","p","p","e","a","r","s"," ","s","a","f","e">>]

\* as if an image with transparency were turned away
analyze_image_content_rejects_alpha(img) ==
    IF img.fault # "none"
    THEN [exc |-> "none", safe |-> FALSE,
          details |-> <<"A","n","a","l","y","s","i","s"," ","e","r","r","o","r",":"," ">> \o <<img.fault>>]
    ELSE IF img.width < MIN_DIMENSION \/ img.height < MIN_DIMENSION
    THEN [exc |-> "none", safe |-> FALSE, details |-> <<"I","m","a","g","e"," ","t","o","o"," ","s","m","a","l","l">>]
    ELSE IF img.width > MAX_DIMENSION \/ img.height > MAX_DIMENSION
    THEN [exc |-> "none", safe |-> FALSE, details |-> <<"I","m","a","g","e"," ","t","o","o"," ","l","a","r","g","e">>]
    ELSE IF img.mode \in {"RGBA", "LA"} \/ img.transparency
    THEN [exc |-> "none", safe |-> FALSE,
          details |-> <<"I","m","a","g","e"," ","c","o","n","t","a","i","n","s"," ","t","r","a","n","s","p","a","r","e","n","c","y">>]
    ELSE [exc |-> "none", safe |-> TRUE, details |-> <<"I","m","a","g","e"," ","a","p","p","e","a","r","s"," ","s","a","f","e">>]

analyze_image_content(img) ==
    IF img.fault # "none"
    THEN IF ExceptException(img.fault)
         THEN [exc |-> "none", safe |-> FALSE,
               details |-> <<"A","n","a","l","y","s","i","s"," ","e","r","r","o","r",":"," ">> \o <<img.fault>>]
         ELSE [exc |-> img.fault, safe |-> FALSE, details |-> None]
    ELSE IF img.width < MIN_DIMENSION \/ img.height < MIN_DIMENSION
    THEN [exc |-> "none", safe |-> FALSE, details |-> <<"I","m","a","g","e"," ","t","o","o"," ","s","m","a","l","l">>]
    ELSE IF img.width > MAX_DIMENSION \/ img.height > MAX_DIMENSION
    THEN [exc |-> "none", safe |-> FALSE, details |-> <<"I","m","a","g","e"," ","t","o","o"," ","l","a","r","g","e">>]
    ELSE [exc |-> "none", safe |-> TRUE, details |-> <<"I","m","a","g","e"," ","a","p","p","e","a","r","s"," ","s","a","f","e">>]

\* the transparency test, whose only effect is a log line
ImageHasTransparency(img) == img.mode \in {"RGBA", "LA"} \/ img.transparency

----------------------------------------------------------------------------
(* generate_file_hash *)

\* the hex digest of the bytes read; one digest stands for the file's own
Sha256Hex == <<"s","h","a","2","5","6","-","h","e","x","d","i","g","e","s","t">>

generate_file_hash(r) ==
    IF r.fault # "none"
    THEN IF ExceptException(r.fault)
         THEN [exc |-> "none", hash |-> None]
         ELSE [exc |-> r.fault, hash |-> None]
    ELSE [exc |-> "none", hash |-> Sha256Hex]

----------------------------------------------------------------------------
(* What the run can meet: the files, and what the libraries and the daemon
   answer.  SizeSlack and DimSlack bound how far around the limits the
   sizes and the image dimensions range. *)

SizeSlack == 1

DimSlack == 1

Dirs == {<<"/","t","m","p","/">>, <<"/","s","r","v","/","u","p",".","d","/">>}

Stems == {<<"a">>, <<".","h">>, <<"B","O","O","K">>, <<"b",".","e","x","e">>}

\* an extension as written in the name, and the same lower-cased, dot-stripped
ExtForms ==
    {[text |-> <<>>, canon |-> <<>>],
     [text |-> <<".","j","p","g">>, canon |-> <<"j","p","g">>],
     [text |-> <<".","J","P","G">>, canon |-> <<"j","p","g">>],
     [text |-> <<".","p","d","f">>, canon |-> <<"p","d","f">>],
     [text |-> <<".","m","p","4">>, canon |-> <<"m","p","4">>],
     [text |-> <<".","e","x","e">>, canon |-> <<"e","x","e">>]}

\* a name without extension has no dot after its first character
Uploads ==
    {u \in [dir : Dirs, stem : Stems, ext : ExtForms] :
        u.ext.text = <<>> => u.stem \in {<<"a">>, <<".","h">>, <<"B","O","O","K">>}}

PathOf(u) == u.dir \o u.stem \o u.ext.text

FileReads == {[fault |-> f] : f \in {"none", "FileNotFoundError", "PermissionError"}}

Mimes ==
    {<<"i","m","a","g","e","/","j","p","e","g">>, <<"v","i","d","e","o","/","m","p","4">>, <<"a","p","p","l","i","c","a","t","i","o","n","/","p","d","f">>, <<"t","e","x","t","/","p","l","a","i","n">>,
     <<"a","p","p","l","i","c","a","t","i","o","n","/","v","n","d",".","m","s","-","e","x","c","e","l">>, <<"a","p","p","l","i","c","a","t","i","o","n","/","x","-","e","x","e","c","u","t","a","b","l","e">>, <<>>}

Sniffs ==
    {[fault |-> "none", mime |-> m] : m \in Mimes}
        \cup {[fault |-> "MagicException", mime |-> None]}

Sizes ==
    {0, 1024} \cup ((MAX_FILE_SIZE - SizeSlack)..(MAX_FILE_SIZE + SizeSlack))

Stats ==
    {[fault |-> "none", size |-> n] : n \in Sizes}
        \cup {[fault |-> "OSError", size |-> 0]}

ConnectOutcomes ==
    {"none", "OSError", "ConnectionRefusedError", "socket.timeout",
     "socket.gaierror"}

SendOutcomes == {"none", "BrokenPipeError"}

RecvFaults == {"socket.timeout", "ConnectionResetError"}

Signatures == {<<"E","i","c","a","r","-","T","e","s","t","-","S","i","g","n","a","t","u","r","e">>, <<"W","i","n",".","T","r","o","j","a","n",".","O","K","-","1">>}

\* the replies of the daemon to SCAN <path>: the daemon names the path it
\* scanned, or "stream"
Replies(path) ==
    LET fields == {path, <<"s","t","r","e","a","m">>}
    IN  {[field |-> f, sig |-> <<>>, status |-> "OK",
          bytes |-> f \o <<":"," ","O","K","\n">>] : f \in fields}
        \cup {[field |-> f, sig |-> g, status |-> "FOUND",
               bytes |-> f \o <<":"," ">> \o g \o <<" ","F","O","U","N","D","\n">>] :
                  f \in fields, g \in Signatures}
        \cup {[field |-> f, sig |-> <<>>, status |-> "ERROR",
               bytes |-> f \o <<":"," ","A","c","c","e","s","s"," ","d","e","n","i","e","d","."," ","E","R","R","O","R","\n">>] : f \in fields}
        \cup {[field |-> <<>>, sig |-> <<>>, status |-> "other", bytes |-> b] :
                  b \in {<<>>, <<"F","O","U","N","D","\n">>, <<"U","N","K","N","O","W","N"," ","C","O","M","M","A","N","D","\n">>,
                         <<InvalidByte>> \o <<":"," ","O","K","\n">>}}

DimValues ==
    {500} \cup ((MIN_DIMENSION - DimSlack)..(MIN_DIMENSION + DimSlack))
          \cup ((MAX_DIMENSION - DimSlack)..(MAX_DIMENSION + DimSlack))

Images ==
    [fault : {"none"}, width : DimValues, height : DimValues,
     mode : {"RGB", "RGBA", "LA"}, transparency : BOOLEAN]
        \cup {[fault |-> "UnidentifiedImageError", width |-> 0, height |-> 0,
               mode |-> "RGB", transparency |-> FALSE]}

----------------------------------------------------------------------------
(* comprehensive_scan *)

\* the report as constructed on entry
NewResults(path) ==
    [file_path |-> path,
     timestamp |-> <<"utcnow">>,
     file_hash |-> None,
     file_size |-> 0,
     file_type_valid |-> FALSE,
     file_category |-> "None",
     mime_type |-> None,
     size_valid |-> FALSE,
     malware_scan |-> [clean |-> FALSE, details |-> <<"N","o","t"," ","s","c","a","n","n","e","d">>],
     content_analysis |-> [safe |-> FALSE, details |-> <<"N","o","t"," ","a","n","a","l","y","z","e","d">>],
     overall_safe |-> FALSE,
     errors |-> <<>>]

Init ==
    /\ upload \in Uploads
    /\ file_path = PathOf(upload)
    /\ results = NewResults(file_path)
    /\ pc = "hash"
    /\ fileread = [fault |-> "unset"]
    /\ sniff = [fault |-> "unset", mime |-> None]
    /\ stat = [fault |-> "unset", size |-> 0]
    /\ sock = "none"
    /\ wire = [fault |-> "unset", field |-> <<>>, sig |-> <<>>,
               status |-> "unset", bytes |-> <<>>]
    /\ response = None
    /\ mret = [exc |-> "none", clean |-> FALSE, details |-> None]
    /\ image = [fault |-> "unset", width |-> 0, height |-> 0, mode |-> "RGB",
                transparency |-> FALSE]
    /\ trace = <<>>
    /\ raised = "none"
    /\ returned = FALSE
    /\ fs = <<>>
    /\ req = <<>>
    /\ conns = <<>>

\* `return results`
Return(r) ==
    /\ results' = r
    /\ pc' = "done"
    /\ returned' = TRUE
    /\ raised' = "none"

\* a statement of the try block raised e: the except clause of
\* comprehensive_scan, then `return results`
comprehensive_scan_except(e) ==
    IF ExceptException(e)
    THEN Return([results EXCEPT !.errors = Append(@, <<"S","c","a","n"," ","e","r","r","o","r",":"," ">> \o <<e>>)])
    ELSE /\ raised' = e
         /\ returned' = FALSE
         /\ pc' = "done"
         /\ UNCHANGED results

\* the run goes on to the next statement
Continue(r, next) ==
    /\ results' = r
    /\ pc' = next
    /\ UNCHANGED <<raised, returned>>

\* as if a failed hash ended the run
Hash_abort_on_failure ==
    /\ pc = "hash"
    /\ \E r \in FileReads :
          LET h == generate_file_hash(r)
          IN  /\ fileread' = r
              /\ IF h.exc # "none"
                 THEN comprehensive_scan_except(h.exc)
                 ELSE IF h.hash = None
                 THEN Return([results EXCEPT !.errors =
                                 Append(@, <<"H","a","s","h"," ","f","a","i","l","e","d">>)])
                 ELSE Continue([results EXCEPT !.file_hash = h.hash], "type")
    /\ trace' = Append(trace, "Hash")
    /\ UNCHANGED <<file_path, upload, sniff, stat, sock, wire, response, mret,
                   image>>
    /\ UNCHANGED httpvars

Hash ==
    /\ pc = "hash"
    /\ \E r \in FileReads :
          LET h == generate_file_hash(r)
          IN  /\ fileread' = r
              /\ IF h.exc # "none"
                 THEN comprehensive_scan_except(h.exc)
                 ELSE Continue([results EXCEPT !.file_hash = h.hash], "type")
    /\ trace' = Append(trace, "Hash")
    /\ UNCHANGED <<file_path, upload, sniff, stat, sock, wire, response, mret,
                   image>>
    /\ UNCHANGED httpvars

\* as if the `return results` after "Invalid file type" were missing
TypeCheck_no_return ==
    /\ pc = "type"
    /\ \E s \in Sniffs :
          LET t == validate_file_type(file_path, s)
              r == [results EXCEPT !.file_type_valid = t.valid,
                                   !.file_category = t.category,
                                   !.mime_type = t.mime_type]
          IN  /\ sniff' = s
              /\ IF t.exc # "none"
                 THEN comprehensive_scan_except(t.exc)
                 ELSE IF ~t.valid
                 THEN Continue([r EXCEPT !.errors =
                                  Append(@, <<"I","n","v","a","l","i","d"," ","f","i","l","e"," ","t","y","p","e">>)], "size")
                 ELSE Continue(r, "size")
    /\ trace' = Append(trace, "TypeCheck")
    /\ UNCHANGED <<file_path, upload, fileread, stat, sock, wire, response,
                   mret, image>>
    /\ UNCHANGED httpvars

TypeCheck ==
    /\ pc = "type"
    /\ \E s \in Sniffs :
          LET t == validate_file_type(file_path, s)
              r == [results EXCEPT !.file_type_valid = t.valid,
                                   !.file_category = t.category,
                                   !.mime_type = t.mime_type]
          IN  /\ sniff' = s
              /\ IF t.exc # "none"
                 THEN comprehensive_scan_except(t.exc)
                 ELSE IF ~t.valid
                 THEN Return([r EXCEPT !.errors =
                                  Append(@, <<"I","n","v","a","l","i","d"," ","f","i","l","e"," ","t","y","p","e">>)])
                 ELSE Continue(r, "size")
    /\ trace' = Append(trace, "TypeCheck")
    /\ UNCHANGED <<file_path, upload, fileread, stat, sock, wire, response,
                   mret, image>>
    /\ UNCHANGED httpvars

\* as if the `return results` after "File too large" were missing
SizeCheck_no_return ==
    /\ pc = "size"
    /\ \E st \in Stats :
          LET v == validate_file_size(st, MAX_FILE_SIZE)
              r == [results EXCEPT !.size_valid = v.valid,
                                   !.file_size = v.size]
          IN  /\ stat' = st
              /\ IF v.exc # "none"
                 THEN comprehensive_scan_except(v.exc)
                 ELSE IF ~v.valid
                 THEN Continue([r EXCEPT !.errors =
                                  Append(@, <<"F","i","l","e"," ","t","o","o"," ","l","a","r","g","e">>)], "connect")
                 ELSE Continue(r, "connect")
    /\ trace' = Append(trace, "SizeCheck")
    /\ UNCHANGED <<file_path, upload, fileread, sniff, sock, wire,
                   response, mret, image>>
    /\ UNCHANGED httpvars

SizeCheck ==
    /\ pc = "size"
    /\ \E st \in Stats :
          LET v == validate_file_size(st, MAX_FILE_SIZE)
              r == [results EXCEPT !.size_valid = v.valid,
                                   !.file_size = v.size]
          IN  /\ stat' = st
              /\ IF v.exc # "none"
                 THEN comprehensive_scan_except(v.exc)
                 ELSE IF ~v.valid
                 THEN Return([r EXCEPT !.errors = Append(@, <<"F","i","l","e"," ","t","o","o"," ","l","a","r","g","e">>)])
                 ELSE Continue(r, "connect")
    /\ trace' = Append(trace, "SizeCheck")
    /\ UNCHANGED <<file_path, upload, fileread, sniff, sock, wire, response,
                   mret, image>>
    /\ UNCHANGED httpvars

\* scan_for_malware is entered: socket(), settimeout(30), connect()
SockConnect ==
    /\ pc = "connect"
    /\ \E o \in ConnectOutcomes :
          /\ wire' = [wire EXCEPT !.fault = o]
          /\ IF o = "none"
             THEN /\ sock' = "connected"
                  /\ pc' = "send"
                  /\ UNCHANGED mret
             ELSE /\ sock' = IF o = "OSError" THEN "none" ELSE "open"
                  /\ mret' = scan_for_malware_except(o)
                  /\ pc' = "malware"
    /\ trace' = Append(trace, "MalwareScan")
    /\ UNCHANGED <<file_path, upload, results, fileread, sniff, stat,
                   response, image, raised, returned>>
    /\ UNCHANGED httpvars

\* sock.send("SCAN <path>\n")
SockSend ==
    /\ pc = "send"
    /\ \E o \in SendOutcomes :
          /\ wire' = [wire EXCEPT !.fault = o]
          /\ IF o = "none"
             THEN /\ pc' = "recv"
                  /\ UNCHANGED mret
             ELSE /\ mret' = scan_for_malware_except(o)
                  /\ pc' = "malware"
    /\ UNCHANGED <<file_path, upload, results, fileread, sniff, stat, sock,
                   response, image, trace, raised, returned>>
    /\ UNCHANGED httpvars

\* response = sock.recv(1024).decode().strip(); sock.close()
SockRecv ==
    /\ pc = "recv"
    /\ \/ \E f \in RecvFaults :
             /\ wire' = [wire EXCEPT !.fault = f]
             /\ mret' = scan_for_malware_except(f)
             /\ pc' = "malware"
             /\ UNCHANGED <<sock, response>>
       \/ \E r \in Replies(file_path) :
             /\ wire' = [fault |-> "none", field |-> r.field, sig |-> r.sig,
                         status |-> r.status, bytes |-> r.bytes]
             /\ IF DecodeFails(Recv(r.bytes))
                THEN /\ mret' = scan_for_malware_except("UnicodeDecodeError")
                     /\ pc' = "malware"
                     /\ UNCHANGED <<sock, response>>
                ELSE /\ response' = PyStrip(Recv(r.bytes))
                     /\ sock' = "closed"
                     /\ pc' = "parse"
                     /\ UNCHANGED mret
    /\ UNCHANGED <<file_path, upload, results, fileread, sniff, stat, image,
                   trace, raised, returned>>
    /\ UNCHANGED httpvars

\* the verdict is read off the response and scan_for_malware returns
Parse ==
    /\ pc = "parse"
    /\ mret' = ParseResponse(response)
    /\ pc' = "malware"
    /\ UNCHANGED <<file_path, upload, results, fileread, sniff, stat, sock,
                   wire, response, image, trace, raised, returned>>
    /\ UNCHANGED httpvars

\* as if the error entry for a failed scan were not appended
MalwareScan_no_error ==
    /\ pc = "malware"
    /\ LET r == [results EXCEPT !.malware_scan =
                    [clean |-> mret.clean, details |-> mret.details]]
       IN  IF mret.exc # "none"
           THEN comprehensive_scan_except(mret.exc)
           ELSE IF ~mret.clean
           THEN Return(r)
           ELSE Continue(r, "content")
    /\ UNCHANGED <<file_path, upload, fileread, sniff, stat, sock, wire,
                   response, mret, image, trace>>
    /\ UNCHANGED httpvars

\* comprehensive_scan takes the verdict of scan_for_malware
MalwareScan ==
    /\ pc = "malware"
    /\ LET r == [results EXCEPT !.malware_scan =
                    [clean |-> mret.clean, details |-> mret.details]]
       IN  IF mret.exc # "none"
           THEN comprehensive_scan_except(mret.exc)
           ELSE IF ~mret.clean
           THEN Return([r EXCEPT !.errors =
                           Append(@, <<"M","a","l","w","a","r","e"," ","d","e","t","e","c","t","e","d",":"," ">> \o mret.details)])
           ELSE Continue(r, "content")
    /\ UNCHANGED <<file_path, upload, fileread, sniff, stat, sock, wire,
                   response, mret, image, trace>>
    /\ UNCHANGED httpvars

ContentCheck ==
    /\ pc = "content"
    /\ IF results.file_category = "image"
       THEN \E img \in Images :
               LET a == analyze_image_content(img)
                   r == [results EXCEPT !.content_analysis =
                            [safe |-> a.safe, details |-> a.details]]
               IN  /\ image' = img
                   /\ IF a.exc # "none"
                      THEN comprehensive_scan_except(a.exc)
                      ELSE IF ~a.safe
                      THEN Return([r EXCEPT !.errors =
                                     Append(@, <<"C","o","n","t","e","n","t"," ","i","s","s","u","e",":"," ">> \o a.details)])
                      ELSE Continue(r, "aggregate")
       ELSE /\ Continue([results EXCEPT !.content_analysis =
                            [safe |-> TRUE,
                             details |-> <<"C","o","n","t","e","n","t"," ","a","n","a","l","y","s","i","s"," ","n","o","t"," ","a","p","p","l","i","c","a","b","l","e">>]],
                        "aggregate")
            /\ UNCHANGED image
    /\ trace' = Append(trace, "ContentCheck")
    /\ UNCHANGED <<file_path, upload, fileread, sniff, stat, sock, wire,
                   response, mret>>
    /\ UNCHANGED httpvars

\* as if the overall assessment were never stored
Aggregate_not_stored ==
    /\ pc = "aggregate"
    /\ Return(results)
    /\ trace' = Append(trace, "Aggregate")
    /\ UNCHANGED <<file_path, upload, fileread, sniff, stat, sock, wire,
                   response, mret, image>>
    /\ UNCHANGED httpvars

\* the overall assessment, and the return at the end of the function
Aggregate ==
    /\ pc = "aggregate"
    /\ Return([results EXCEPT !.overall_safe =
                  /\ results.file_type_valid
                  /\ results.size_valid
                  /\ results.malware_scan.clean
                  /\ results.content_analysis.safe])
    /\ trace' = Append(trace, "Aggregate")
    /\ UNCHANGED <<file_path, upload, fileread, sniff, stat, sock, wire,
                   response, mret, image>>
    /\ UNCHANGED httpvars

Next ==
    \/ Hash
    \/ TypeCheck
    \/ SizeCheck
    \/ SockConnect
    \/ SockSend
    \/ SockRecv
    \/ Parse
    \/ MalwareScan
    \/ ContentCheck
    \/ Aggregate

Spec == Init /\ [][Next]_vars

----------------------------------------------------------------------------
(* comprehensive_scan as run by a request handler: the same statements,
   over the report and position of one request.  A stage gives the report,
   the position the run goes on at ("done": it has returned) and the
   exception that left comprehensive_scan, if any. *)

Ret(r) == [results |-> r, pc |-> "done", raised |-> "none"]

Go(r, next) == [results |-> r, pc |-> next, raised |-> "none"]

\* the except clause of comprehensive_scan
Caught(res, e) ==
    IF ExceptException(e)
    THEN Ret([res EXCEPT !.errors = Append(@, <<"S","c","a","n"," ","e","r","r","o","r",":"," ">> \o <<e>>)])
    ELSE [results |-> res, pc |-> "done", raised |-> e]

HashStage(res, h) ==
    IF h.exc # "none" THEN Caught(res, h.exc)
    ELSE Go([res EXCEPT !.file_hash = h.hash], "type")

TypeStage(res, t) ==
    LET r == [res EXCEPT !.file_type_valid = t.valid,
                         !.file_category = t.category,
                         !.mime_type = t.mime_type]
    IN  IF t.exc # "none" THEN Caught(res, t.exc)
        ELSE IF ~t.valid
        THEN Ret([r EXCEPT !.errors = Append(@, <<"I","n","v","a","l","i","d"," ","f","i","l","e"," ","t","y","p","e">>)])
        ELSE Go(r, "size")

SizeStage(res, v) ==
    LET r == [res EXCEPT !.size_valid = v.valid, !.file_size = v.size]
    IN  IF v.exc # "none" THEN Caught(res, v.exc)
        ELSE IF ~v.valid
        THEN Ret([r EXCEPT !.errors = Append(@, <<"F","i","l","e"," ","t","o","o"," ","l","a","r","g","e">>)])
        ELSE Go(r, "connect")

MalwareStage(res, m) ==
    LET r == [res EXCEPT !.malware_scan =
                 [clean |-> m.clean, details |-> m.details]]
    IN  IF m.exc # "none" THEN Caught(res, m.exc)
        ELSE IF ~m.clean
        THEN Ret([r EXCEPT !.errors =
                     Append(@, <<"M","a","l","w","a","r","e"," ","d","e","t","e","c","t","e","d",":"," ">> \o m.details)])
        ELSE Go(r, "content")

ContentStage(res, img) ==
    IF res.file_category = "image"
    THEN LET a == analyze_image_content(img)
             r == [res EXCEPT !.content_analysis =
                      [safe |-> a.safe, details |-> a.details]]
         IN  IF a.exc # "none" THEN Caught(res, a.exc)
             ELSE IF ~a.safe
             THEN Ret([r EXCEPT !.errors =
                          Append(@, <<"C","o","n","t","e","n","t"," ","i","s","s","u","e",":"," ">> \o a.details)])
             ELSE Go(r, "aggregate")
    ELSE Go([res EXCEPT !.content_analysis =
                [safe |-> TRUE,
                 details |-> <<"C","o","n","t","e","n","t"," ","a","n","a","l","y","s","i","s"," ","n","o","t"," ","a","p","p","l","i","c","a","b","l","e">>]],
            "aggregate")

AggregateStage(res) ==
    Ret([res EXCEPT !.overall_safe =
            /\ res.file_type_valid
            /\ res.size_valid
            /\ res.malware_scan.clean
            /\ res.content_analysis.safe])

\* scan_for_malware from the bytes received to the verdict
ScanVerdict(bytes) ==
    IF DecodeFails(Recv(bytes))
    THEN scan_for_malware_except("UnicodeDecodeError")
    ELSE ParseResponse(PyStrip(Recv(bytes)))

\* the stages one after the other, each on what it met
Pipeline(path, r, s, st, m, img) ==
    LET s1 == HashStage(NewResults(path), generate_file_hash(r))
        s2 == IF s1.pc = "done" THEN s1
              ELSE TypeStage(s1.results, validate_file_type(path, s))
        s3 == IF s2.pc = "done" THEN s2
              ELSE SizeStage(s2.results, validate_file_size(st, MAX_FILE_SIZE))
        s4 == IF s3.pc = "done" THEN s3 ELSE MalwareStage(s3.results, m)
        s5 == IF s4.pc = "done" THEN s4 ELSE ContentStage(s4.results, img)
    IN  IF s5.pc = "done" THEN s5 ELSE AggregateStage(s5.results)

\* the stage-by-stage run and the stages taken one after the other agree
PipelineAgrees ==
    (pc = "done" /\ returned) =>
        results = Pipeline(file_path, fileread, sniff, stat, mret, image).results

----------------------------------------------------------------------------
(* The request handlers scan_file (/scan), scan_file_path (/scan-path) and
   validate_file (/validate), served concurrently: every request has its
   own locals, all share the files under /tmp and the daemon.  NReq bounds
   the number of requests in flight. *)

NReq == 2

Requests == 1..NReq

TempNames == {<<"a",".","p","d","f">>, <<"b",".","p","d","f">>}

\* temp_path = f"/tmp/{file.filename}"
TempPath(name) == <<"/","t","m","p","/">> \o name

HttpPaths == {TempPath(n) : n \in TempNames}

\* the uploads: what libmagic, getsize and the daemon find in each
FileIds == {"clean", "eicar"}

FileAttrs(id) ==
    IF id = "eicar"
    THEN [magic |-> <<"a","p","p","l","i","c","a","t","i","o","n","/","p","d","f">>, size |-> 68,
          sig |-> <<"E","i","c","a","r","-","T","e","s","t","-","S","i","g","n","a","t","u","r","e">>]
    ELSE [magic |-> <<"a","p","p","l","i","c","a","t","i","o","n","/","p","d","f">>, size |-> 1024, sig |-> <<>>]

\* no file at a path
Absent == [owner |-> 0, file |-> "absent"]

\* open(path, "rb") in generate_file_hash
ReadOf(e) ==
    [fault |-> IF e.file = "absent" THEN "FileNotFoundError" ELSE "none"]

\* self.mime.from_file(path)
SniffOf(e) ==
    IF e.file = "absent"
    THEN [fault |-> "FileNotFoundError", mime |-> None]
    ELSE [fault |-> "none", mime |-> FileAttrs(e.file).magic]

\* os.path.getsize(path)
StatOf(e) ==
    IF e.file = "absent"
    THEN [fault |-> "FileNotFoundError", size |-> 0]
    ELSE [fault |-> "none", size |-> FileAttrs(e.file).size]

\* Image.open(path): none of the uploads is an image
ImageOf(e) ==
    [fault |-> IF e.file = "absent" THEN "FileNotFoundError"
               ELSE "UnidentifiedImageError",
     width |-> 0, height |-> 0, mode |-> "RGB", transparency |-> FALSE]

\* what the daemon answers to SCAN <path>, by what it finds at the path
DaemonReply(path, e) ==
    IF e.file = "absent"
    THEN path \o <<":"," ","l","s","t","a","t","(",")"," ","f","a","i","l","e","d",":"," ","N","o"," ","s","u","c","h"," ","f","i","l","e"," ","o","r"," ","d","i","r","e","c","t","o","r","y","."," ","E","R","R","O","R","\n">>
    ELSE IF FileAttrs(e.file).sig # <<>>
    THEN path \o <<":"," ">> \o FileAttrs(e.file).sig \o <<" ","F","O","U","N","D","\n">>
    ELSE path \o <<":"," ","O","K","\n">>

\* one socket kept by the moderator and used by every scan
SockOf_shared(p) == 1

\* the socket of a scan is a local of its own call of scan_for_malware
SockOf(p) == p

\* the dict /validate answers with, before it is filled in
NewValidation ==
    [file_type_valid |-> FALSE, file_category |-> "None", mime_type |-> None,
     size_valid |-> FALSE, file_size |-> 0, valid |-> FALSE]

\* the requests: an upload under a name, an upload missing from the form,
\* a path to scan, a body without file_path
RequestForms ==
    {[kind |-> k, path |-> TempPath(n), file |-> f] :
        k \in {"scan", "validate"}, n \in TempNames, f \in FileIds}
    \cup {[kind |-> k, path |-> <<>>, file |-> "none"] :
             k \in {"scan", "validate", "scan-path"}}
    \cup {[kind |-> "scan-path", path |-> TempPath(n), file |-> "none"] :
             n \in TempNames}

\* requests are told apart by their number only: the forms are taken in
\* one order, so that no two initial states differ by a renumbering
FormRank(form) ==
    (CASE form.kind = "scan" -> 0
       [] form.kind = "validate" -> 1
       [] OTHER -> 2) * 9
    + (CASE form.path = <<>> -> 0
         [] form.path = TempPath(<<"a",".","p","d","f">>) -> 1
         [] OTHER -> 2) * 3
    + (CASE form.file = "none" -> 0
         [] form.file = "clean" -> 1
         [] OTHER -> 2)

NewRequest(form) ==
    [kind |-> form.kind, path |-> form.path, file |-> form.file,
     pc |-> "start", results |-> NewResults(form.path),
     validation |-> NewValidation, sock |-> 0, seen |-> form.file,
     status |-> 0]

HttpInit ==
    /\ \E forms \in [Requests -> RequestForms] :
          /\ \A p \in Requests \ {NReq} :
                 FormRank(forms[p]) <= FormRank(forms[p + 1])
          /\ req = [p \in Requests |-> NewRequest(forms[p])]
    /\ fs \in {[q \in HttpPaths |-> Absent],
               [q \in HttpPaths |->
                   IF q = TempPath(<<"a",".","p","d","f">>)
                   THEN [owner |-> 0, file |-> "clean"] ELSE Absent]}
    /\ conns = [c \in Requests |-> None]
    /\ upload = [dir |-> <<>>, stem |-> <<>>,
                 ext |-> [text |-> <<>>, canon |-> <<>>]]
    /\ file_path = <<>>
    /\ results = NewResults(file_path)
    /\ pc = "idle"
    /\ fileread = [fault |-> "unset"]
    /\ sniff = [fault |-> "unset", mime |-> None]
    /\ stat = [fault |-> "unset", size |-> 0]
    /\ sock = "none"
    /\ wire = [fault |-> "unset", field |-> <<>>, sig |-> <<>>,
               status |-> "unset", bytes |-> <<>>]
    /\ response = None
    /\ mret = [exc |-> "none", clean |-> FALSE, details |-> None]
    /\ image = [fault |-> "unset", width |-> 0, height |-> 0, mode |-> "RGB",
                transparency |-> FALSE]
    /\ trace = <<>>
    /\ raised = "none"
    /\ returned = FALSE

\* the handler answers with a status
Respond(p, code) ==
    req' = [req EXCEPT ![p].status = code, ![p].pc = "done"]

\* /scan and /validate: the form is checked and the upload saved
SaveUpload(p) ==
    /\ req[p].kind \in {"scan", "validate"}
    /\ req[p].pc = "start"
    /\ IF req[p].file = "none"
       THEN Respond(p, 400) /\ UNCHANGED fs
       ELSE /\ fs' = [fs EXCEPT ![req[p].path] =
                        [owner |-> p, file |-> req[p].file]]
            /\ req' = [req EXCEPT ![p].pc =
                          IF req[p].kind = "scan" THEN "hash" ELSE "vtype"]
    /\ UNCHANGED <<conns, scanvars>>

\* /scan-path: the body is checked and the path looked up
PathExists(p) ==
    /\ req[p].kind = "scan-path"
    /\ req[p].pc = "start"
    /\ IF req[p].path = <<>>
       THEN Respond(p, 400)
       ELSE IF fs[req[p].path] = Absent
       THEN Respond(p, 404)
       ELSE req' = [req EXCEPT ![p].pc = "hash",
                               ![p].seen = fs[req[p].path].file]
    /\ UNCHANGED <<fs, conns, scanvars>>

\* comprehensive_scan has run a stage: it goes on, or it is over and the
\* handler goes on
Advance(p, st) ==
    req' = [req EXCEPT
              ![p].results = st.results,
              ![p].pc =
                 IF st.pc # "done" THEN st.pc
                 ELSE IF req[p].kind = "scan"
                 THEN (IF st.raised = "none" THEN "remove" ELSE "cleanup")
                 ELSE (IF st.raised = "none" THEN "respond" ELSE "done"),
              ![p].status =
                 IF st.pc = "done" /\ st.raised # "none"
                       /\ req[p].kind = "scan-path"
                 THEN 500 ELSE @]

ScanHash(p) ==
    /\ req[p].pc = "hash"
    /\ Advance(p, HashStage(req[p].results,
                            generate_file_hash(ReadOf(fs[req[p].path]))))
    /\ UNCHANGED <<fs, conns, scanvars>>

ScanType(p) ==
    /\ req[p].pc = "type"
    /\ Advance(p, TypeStage(req[p].results,
                            validate_file_type(req[p].path,
                                               SniffOf(fs[req[p].path]))))
    /\ UNCHANGED <<fs, conns, scanvars>>

ScanSize(p) ==
    /\ req[p].pc = "size"
    /\ Advance(p, SizeStage(req[p].results,
                            validate_file_size(StatOf(fs[req[p].path]),
                                               MAX_FILE_SIZE)))
    /\ UNCHANGED <<fs, conns, scanvars>>

\* scan_for_malware: the socket is made and connected and SCAN <path> sent;
\* the daemon looks at the path and queues its reply on that connection
ScanSend(p) ==
    /\ req[p].pc = "connect"
    /\ req' = [req EXCEPT ![p].sock = SockOf(p), ![p].pc = "recv"]
    /\ conns' = [conns EXCEPT ![SockOf(p)] =
                    DaemonReply(req[p].path, fs[req[p].path])]
    /\ UNCHANGED <<fs, scanvars>>

\* scan_for_malware: the reply is received, the socket closed, the verdict
\* read off and taken into the report
ScanRecv(p) ==
    /\ req[p].pc = "recv"
    /\ LET st == MalwareStage(req[p].results,
                              ScanVerdict(conns[req[p].sock]))
       IN  req' = [req EXCEPT
                     ![p].results = st.results,
                     ![p].sock = 0,
                     ![p].pc =
                        IF st.pc # "done" THEN st.pc
                        ELSE IF req[p].kind = "scan"
                        THEN (IF st.raised = "none" THEN "remove"
                              ELSE "cleanup")
                        ELSE (IF st.raised = "none" THEN "respond"
                              ELSE "done"),
                     ![p].status =
                        IF st.pc = "done" /\ st.raised # "none"
                              /\ req[p].kind = "scan-path"
                        THEN 500 ELSE @]
    /\ conns' = [conns EXCEPT ![req[p].sock] = None]
    /\ UNCHANGED <<fs, scanvars>>

\* the content analysis and, when it passes, the overall assessment
ScanContent(p) ==
    /\ req[p].pc = "content"
    /\ LET st == ContentStage(req[p].results, ImageOf(fs[req[p].path]))
       IN  Advance(p, IF st.pc = "done" THEN st
                      ELSE AggregateStage(st.results))
    /\ UNCHANGED <<fs, conns, scanvars>>

\* /validate: validate_file_type
ValidateType(p) ==
    /\ req[p].pc = "vtype"
    /\ LET t == validate_file_type(req[p].path, SniffOf(fs[req[p].path]))
       IN  req' = [req EXCEPT
                     ![p].validation =
                        [@ EXCEPT !.file_type_valid = t.valid,
                                  !.file_category = t.category,
                                  !.mime_type = t.mime_type],
                     ![p].pc = IF t.exc = "none" THEN "vsize" ELSE "cleanup"]
    /\ UNCHANGED <<fs, conns, scanvars>>

\* /validate: validate_file_size, and the answer put together
ValidateSize(p) ==
    /\ req[p].pc = "vsize"
    /\ LET v == validate_file_size(StatOf(fs[req[p].path]), MAX_FILE_SIZE)
       IN  req' = [req EXCEPT
                     ![p].validation =
                        [@ EXCEPT !.size_valid = v.valid,
                                  !.file_size = v.size,
                                  !.valid = req[p].validation.file_type_valid
                                            /\ v.valid],
                     ![p].pc = IF v.exc = "none" THEN "remove" ELSE "cleanup"]
    /\ UNCHANGED <<fs, conns, scanvars>>

\* the answer without os.remove(temp_path)
RemoveTemp_keeps(p) ==
    /\ req[p].pc = "remove"
    /\ Respond(p, 200)
    /\ UNCHANGED <<fs, conns, scanvars>>

\* os.remove(temp_path), then the answer; a missing file raises
RemoveTemp(p) ==
    /\ req[p].pc = "remove"
    /\ IF fs[req[p].path] = Absent
       THEN /\ req' = [req EXCEPT ![p].pc = "cleanup"]
            /\ UNCHANGED fs
       ELSE /\ fs' = [fs EXCEPT ![req[p].path] = Absent]
            /\ Respond(p, 200)
    /\ UNCHANGED <<conns, scanvars>>

\* the inner except clause: the file is removed if it is there, the
\* exception raised again and answered with 500
Cleanup(p) ==
    /\ req[p].pc = "cleanup"
    /\ fs' = [fs EXCEPT ![req[p].path] = Absent]
    /\ Respond(p, 500)
    /\ UNCHANGED <<conns, scanvars>>

\* /scan-path cleaning up the path it was given, as /scan does
RespondPath_removes(p) ==
    /\ req[p].pc = "respond"
    /\ fs' = [fs EXCEPT ![req[p].path] = Absent]
    /\ Respond(p, 200)
    /\ UNCHANGED <<conns, scanvars>>

\* /scan-path: the report is the answer
RespondPath(p) ==
    /\ req[p].pc = "respond"
    /\ Respond(p, 200)
    /\ UNCHANGED <<fs, conns, scanvars>>

HttpNext ==
    \E p \in Requests :
        \/ SaveUpload(p)
        \/ PathExists(p)
        \/ ScanHash(p)
        \/ ScanType(p)
        \/ ScanSize(p)
        \/ ScanSend(p)
        \/ ScanRecv(p)
        \/ ScanContent(p)
        \/ ValidateType(p)
        \/ ValidateSize(p)
        \/ RemoveTemp(p)
        \/ Cleanup(p)
        \/ RespondPath(p)

SpecHTTP == HttpInit /\ [][HttpNext]_vars

\* the report comprehensive_scan(path) gives when nothing else touches the
\* file found at the path
ScanAlone(path, id) ==
    LET e == [owner |-> 0, file |-> id]
    IN  Pipeline(path, ReadOf(e), SniffOf(e), StatOf(e),
                 ScanVerdict(DaemonReply(path, e)), ImageOf(e)).results

\* the program counters inside comprehensive_scan
ScanStages == {"hash", "type", "size", "connect", "recv", "content"}

\* the request's call of comprehensive_scan is over
ScanOver(p) ==
    /\ req[p].kind \in {"scan", "scan-path"}
    /\ req[p].pc \in {"remove", "cleanup", "respond", "done"}
    /\ req[p].status \notin {400, 404}

\* no other request names the path of p
PathUnshared(p) ==
    \A q \in Requests \ {p} : req[q].path # req[p].path

----------------------------------------------------------------------------
(* Properties *)

Entered(stage) == \E i \in 1..Len(trace) : trace[i] = stage

\* scan_for_malware has handed its verdict back
ScanReturned == Entered("MalwareScan") /\ pc \in {"malware", "content", "aggregate", "done"}

\* comprehensive_scan has taken the verdict into the report
ScanReported == Entered("MalwareScan") /\ pc \in {"content", "aggregate", "done"}

NotScanned == [clean |-> FALSE, details |-> <<"N","o","t"," ","s","c","a","n","n","e","d">>]

NotAnalyzed == [safe |-> FALSE, details |-> <<"N","o","t"," ","a","n","a","l","y","z","e","d">>]

StageOrder ==
    <<"Hash", "TypeCheck", "SizeCheck", "MalwareScan", "ContentCheck",
      "Aggregate">>

TransportFaults ==
    {"OSError", "ConnectionRefusedError", "socket.timeout", "socket.gaierror",
     "BrokenPipeError", "ConnectionResetError"}

\* C1: every report comprehensive_scan returns has overall_safe true exactly
\* when file_type_valid, size_valid, malware_scan.clean and
\* content_analysis.safe are all true (content_analysis.safe being set true
\* for a category other than image).
C1_OverallSafeIff ==
    (pc = "done" /\ returned) =>
        /\ results.overall_safe <=>
              /\ results.file_type_valid
              /\ results.size_valid
              /\ results.malware_scan.clean
              /\ results.content_analysis.safe
        /\ (results.overall_safe /\ results.file_category # "image") =>
              results.content_analysis =
                 [safe |-> TRUE, details |-> <<"C","o","n","t","e","n","t"," ","a","n","a","l","y","s","i","s"," ","n","o","t"," ","a","p","p","l","i","c","a","b","l","e">>]

C1_Witness ==
    /\ pc = "done"
    /\ returned
    /\ results.overall_safe
    /\ results.file_category = "document"
    /\ image.fault = "unset"

\* C2: once TypeCheck, SizeCheck, MalwareScan or ContentCheck has reported
\* failure the run has returned, the fields of every later stage still hold
\* their initial values, overall_safe is false and the errors list holds
\* exactly one entry.
C2_FirstFailureStops ==
    /\ (Entered("TypeCheck") /\ ~results.file_type_valid) =>
          /\ pc = "done" /\ returned
          /\ results.size_valid = FALSE /\ results.file_size = 0
          /\ results.malware_scan = NotScanned
          /\ results.content_analysis = NotAnalyzed
          /\ results.overall_safe = FALSE
          /\ Len(results.errors) = 1
    /\ (Entered("SizeCheck") /\ ~results.size_valid) =>
          /\ pc = "done" /\ returned
          /\ results.malware_scan = NotScanned
          /\ results.content_analysis = NotAnalyzed
          /\ results.overall_safe = FALSE
          /\ Len(results.errors) = 1
    /\ (ScanReported /\ ~results.malware_scan.clean) =>
          /\ pc = "done" /\ returned
          /\ results.content_analysis = NotAnalyzed
          /\ results.overall_safe = FALSE
          /\ Len(results.errors) = 1
    /\ (Entered("ContentCheck") /\ ~results.content_analysis.safe) =>
          /\ pc = "done" /\ returned
          /\ results.overall_safe = FALSE
          /\ Len(results.errors) = 1

C2_Witness ==
    /\ pc = "done"
    /\ Entered("SizeCheck")
    /\ ~results.size_valid
    /\ stat.fault = "none"

\* C3: the stages are entered in the order Hash, TypeCheck, SizeCheck,
\* MalwareScan, ContentCheck, Aggregate; the daemon is contacted only after
\* TypeCheck and SizeCheck have passed in this run, and the image is
\* analysed only after a clean daemon verdict and only for category image.
C3_StageOrder ==
    /\ Len(trace) <= Len(StageOrder)
    /\ \A i \in 1..Len(trace) : trace[i] = StageOrder[i]
    /\ (sock # "none" \/ wire.fault # "unset") =>
          /\ Entered("TypeCheck") /\ results.file_type_valid
          /\ Entered("SizeCheck") /\ results.size_valid
    /\ image.fault # "unset" =>
          /\ ScanReported
          /\ results.malware_scan.clean
          /\ results.file_category = "image"

C3_Witness ==
    /\ pc = "done"
    /\ trace = StageOrder
    /\ image.fault = "none"

\* C4: comprehensive_scan ends, and ends by returning its report: no
\* exception leaves it, whatever faults the stages meet.
C4_AlwaysReturns ==
    /\ raised = "none"
    /\ pc = "done" => returned
    /\ pc # "done" => ENABLED Next

C4_Witness ==
    /\ pc = "done"
    /\ returned
    /\ fileread.fault = "PermissionError"
    /\ wire.fault = "socket.timeout"

\* C5: when scan_for_malware has handed its verdict back, the socket it
\* opened is closed.
C5_SocketClosedOnExit == ScanReturned => sock \in {"none", "closed"}

\* C6: a response "<field>: <signature> FOUND" gives clean = false with
\* exactly <signature> as the name; "stream: OK" gives Clean; a response
\* with neither OK nor FOUND in it gives a non-clean error outcome.
C6_VerdictOfResponse ==
    (ScanReturned /\ wire.fault = "none" /\ ~DecodeFails(wire.bytes)) =>
        /\ (wire.status = "FOUND" /\ ~PyIn(<<"O","K">>, wire.bytes)) =>
              (~mret.clean /\ mret.details = wire.sig)
        /\ wire.bytes = <<"s","t","r","e","a","m",":"," ","O","K","\n">> =>
              (mret.clean /\ mret.details = <<"C","l","e","a","n">>)
        /\ (~PyIn(<<"O","K">>, wire.bytes) /\ ~PyIn(<<"F","O","U","N","D">>, wire.bytes)) =>
              (~mret.clean /\ mret.details = <<"S","c","a","n"," ","f","a","i","l","e","d">>)

\* C7: a response with FOUND in it never gives a clean verdict, and a
\* report for such a response never has overall_safe true.
C7_FailClosed ==
    (ScanReturned /\ wire.fault = "none" /\ PyIn(<<"F","O","U","N","D">>, wire.bytes)) =>
        /\ ~mret.clean
        /\ ~results.overall_safe

\* C8: when the exchange with the daemon fails in transport,
\* scan_for_malware hands back a non-clean outcome with a message, the
\* report has malware_scan.clean false, overall_safe false, one error entry
\* and no content analysis; and overall_safe is true only in a run that
\* received a response from the daemon.
C8_TransportFailure ==
    /\ (ScanReturned /\ wire.fault \in TransportFaults) =>
          /\ mret.exc = "none"
          /\ ~mret.clean
          /\ mret.details = <<"S","c","a","n"," ","e","r","r","o","r",":"," ">> \o <<wire.fault>>
    /\ (ScanReported /\ wire.fault \in TransportFaults) =>
          /\ pc = "done" /\ returned
          /\ results.malware_scan = [clean |-> FALSE, details |-> mret.details]
          /\ results.overall_safe = FALSE
          /\ Len(results.errors) = 1
          /\ results.content_analysis = NotAnalyzed
          /\ image.fault = "unset"
    /\ results.overall_safe =>
          (wire.fault = "none" /\ wire.status \in {"OK", "FOUND", "ERROR", "other"})

C8_Witness ==
    /\ pc = "done"
    /\ returned
    /\ wire.fault = "ConnectionRefusedError"

\* C9: validate_file_type gives valid = true exactly when the lower-cased,
\* dot-stripped extension of the name is in some category's extension set
\* and the sniffed type starts with a prefix of that category, which is then
\* the category reported; otherwise valid = false and the category is None:
\* a .jpg whose content is application/x-executable is rejected.
C9_TypeValidation ==
    LET matches(c) ==
            /\ sniff.fault = "none"
            /\ upload.ext.canon \in ALLOWED_EXTENSIONS[c]
            /\ \E i \in 1..Len(mime_categories[c]) :
                  /\ Len(mime_categories[c][i]) <= Len(sniff.mime)
                  /\ SubSeq(sniff.mime, 1, Len(mime_categories[c][i]))
                        = mime_categories[c][i]
    IN  Entered("TypeCheck") =>
           /\ results.file_type_valid <=>
                 \E c \in {"image", "video", "document"} : matches(c)
           /\ results.file_type_valid => matches(results.file_category)
           /\ ~results.file_type_valid => results.file_category = "None"
           /\ (upload.ext.canon = <<"j","p","g">>
                 /\ sniff.mime = <<"a","p","p","l","i","c","a","t","i","o","n","/","x","-","e","x","e","c","u","t","a","b","l","e">>) =>
                 (~results.file_type_valid /\ pc = "done")

C9_Witness ==
    /\ Entered("TypeCheck")
    /\ upload.ext.text = <<".","J","P","G">>
    /\ sniff.mime = <<"a","p","p","l","i","c","a","t","i","o","n","/","x","-","e","x","e","c","u","t","a","b","l","e">>
    /\ ~results.file_type_valid
    /\ results.file_category = "None"

\* C10: validate_file_size gives (size <= maximum, size), the maximum being
\* 10,485,760 bytes: a file of exactly that size passes and one a byte
\* larger fails; when the stat fails it gives (false, 0).
C10_SizeValidation ==
    Entered("SizeCheck") =>
        /\ stat.fault = "none" =>
              /\ results.size_valid <=> (stat.size <= 10485760)
              /\ results.file_size = stat.size
        /\ stat.fault # "none" =>
              /\ results.size_valid = FALSE
              /\ results.file_size = 0

C10_Witness ==
    /\ Entered("SizeCheck")
    /\ stat.fault = "none"
    /\ stat.size = 10485760
    /\ results.size_valid

\* C11: a failed hash leaves file_hash None and changes nothing else: the
\* report after the hash stage is the initial report but for file_hash, no
\* error entry is added, the run goes on to TypeCheck, and when every other
\* stage passes all six stages run and the report is overall_safe with no
\* error.
C11_HashFailureAlone ==
    /\ Entered("Hash") =>
          results.file_hash =
             IF fileread.fault = "none" THEN Sha256Hex ELSE None
    /\ pc = "type" =>
          results = [NewResults(file_path) EXCEPT !.file_hash = results.file_hash]
    /\ Entered("Hash") => (pc # "done" \/ Entered("TypeCheck"))
    /\ (/\ pc = "done"
        /\ fileread.fault \notin {"none", "unset"}
        /\ results.file_type_valid
        /\ results.size_valid
        /\ results.malware_scan.clean
        /\ results.content_analysis.safe) =>
          /\ trace = StageOrder
          /\ results.errors = <<>>
          /\ results.overall_safe
          /\ results.file_hash = None

C11_Witness ==
    /\ pc = "done"
    /\ fileread.fault = "FileNotFoundError"
    /\ results.file_hash = None
    /\ results.overall_safe
    /\ results.errors = <<>>

\* C12: analyze_image_content gives Unsafe "Image too small" when the width
\* or the height is below 10, else Unsafe "Image too large" when the width
\* or the height is above 10000, else Safe; 9x9 is too small, 10x10 and
\* 10000x10000 are safe, 10001x500 is too large; a decode failure gives
\* Unsafe with an analysis-error reason and raises nothing.
C12_ImageBounds ==
    LET w == image.width
        h == image.height
        a == results.content_analysis
    IN  (Entered("ContentCheck") /\ image.fault # "unset") =>
           /\ raised = "none"
           /\ image.fault = "none" =>
                 /\ (w < 10 \/ h < 10) =>
                       a = [safe |-> FALSE, details |-> <<"I","m","a","g","e"," ","t","o","o"," ","s","m","a","l","l">>]
                 /\ (w >= 10 /\ h >= 10 /\ (w > 10000 \/ h > 10000)) =>
                       a = [safe |-> FALSE, details |-> <<"I","m","a","g","e"," ","t","o","o"," ","l","a","r","g","e">>]
                 /\ (w >= 10 /\ h >= 10 /\ w <= 10000 /\ h <= 10000) =>
                       a = [safe |-> TRUE, details |-> <<"I","m","a","g","e"," ","a","p","p","e","a","r","s"," ","s","a","f","e">>]
                 /\ (w = 9 /\ h = 9) => (~a.safe /\ a.details = <<"I","m","a","g","e"," ","t","o","o"," ","s","m","a","l","l">>)
                 /\ (w = 10 /\ h = 10) => a.safe
                 /\ (w = 10000 /\ h = 10000) => a.safe
                 /\ (w = 10001 /\ h = 500) =>
                       (~a.safe /\ a.details = <<"I","m","a","g","e"," ","t","o","o"," ","l","a","r","g","e">>)
           /\ image.fault # "none" =>
                 /\ a = [safe |-> FALSE,
                         details |-> <<"A","n","a","l","y","s","i","s"," ","e","r","r","o","r",":"," ">> \o <<image.fault>>]
                 /\ pc = "done" /\ returned

C12_Witness ==
    /\ pc = "done"
    /\ image.fault = "none"
    /\ image.width = 10000
    /\ image.height = 10000
    /\ results.content_analysis.safe

\* C13: the verdict and the reason analyze_image_content gave for the image
\* of this run are those it gives for every image of the same width and
\* height, whatever its colour mode and transparency metadata.
C13_TransparencyIgnored ==
    (Entered("ContentCheck") /\ image.fault = "none") =>
        \A m \in {"RGB", "RGBA", "LA"}, t \in BOOLEAN :
            LET other == [image EXCEPT !.mode = m, !.transparency = t]
            IN /\ other \in Images
               /\ analyze_image_content(other).safe
                     = results.content_analysis.safe
               /\ analyze_image_content(other).details
                     = results.content_analysis.details

C13_Witness ==
    /\ pc = "done"
    /\ image.fault = "none"
    /\ image.mode = "RGBA"
    /\ image.transparency
    /\ results.content_analysis.safe
    /\ results.overall_safe

\* C16: when sniffing faults or gives an empty media type the file is
\* type-invalid with category None, and the run ends at TypeCheck with the
\* one error "Invalid file type", the file not stat-ed and the daemon not
\* contacted.
C16_SniffFailureRejects ==
    (Entered("TypeCheck")
        /\ (sniff.fault # "none" \/ sniff.mime = <<>>)) =>
        /\ ~results.file_type_valid
        /\ results.file_category = "None"
        /\ pc = "done" /\ returned
        /\ results.errors = <<<<"I","n","v","a","l","i","d"," ","f","i","l","e"," ","t","y","p","e">>>>
        /\ trace = <<"Hash", "TypeCheck">>
        /\ stat.fault = "unset"
        /\ sock = "none" /\ wire.fault = "unset"
        /\ results.size_valid = FALSE /\ results.file_size = 0
        /\ results.malware_scan = NotScanned

C16_Witness ==
    /\ pc = "done"
    /\ sniff.fault = "none"
    /\ sniff.mime = <<>>
    /\ upload.ext.canon = <<"j","p","g">>
    /\ results.errors = <<<<"I","n","v","a","l","i","d"," ","f","i","l","e"," ","t","y","p","e">>>>

\* C17: a returned report has overall_safe true exactly when its errors
\* list is empty, and a report without overall_safe holds exactly one
\* error.
C17_SafeIffNoErrors ==
    (pc = "done" /\ returned) =>
        /\ results.overall_safe <=> (results.errors = <<>>)
        /\ ~results.overall_safe => Len(results.errors) = 1

C17_Witness ==
    /\ pc = "done"
    /\ returned
    /\ ~results.overall_safe
    /\ Len(results.errors) = 1
    /\ wire.status = "ERROR"

\* C14: concurrent scans of different files are independent: no two scans
\* hold the same socket, and the report of a scan whose path no other
\* request names is the report the scan gives when it runs alone.
C14_IndependentScans ==
    \A p \in Requests :
        /\ \A q \in Requests \ {p} :
               (req[p].sock # 0 /\ req[q].sock # 0)
                   => req[p].sock # req[q].sock
        /\ (ScanOver(p) /\ PathUnshared(p))
               => req[p].results = ScanAlone(req[p].path, req[p].seen)

C14_Witness ==
    \E p, q \in Requests :
        /\ req[p].path # req[q].path
        /\ ScanOver(p) /\ PathUnshared(p)
        /\ req[p].seen = "eicar"
        /\ ~req[p].results.malware_scan.clean
        /\ req[q].pc = "recv"
        /\ req[q].seen = "clean"
        /\ PathUnshared(q)

\* C15: no step of comprehensive_scan and no step of the /scan-path handler
\* writes or deletes a file: the file at the path is after the step what
\* it was before.
C15_CoreLeavesPath ==
    [][\A p \in Requests :
          (req'[p] # req[p]
              /\ (req[p].kind = "scan-path" \/ req[p].pc \in ScanStages))
          => fs' = fs]_vars

C15_Witness ==
    \E p \in Requests :
        /\ req[p].kind = "scan-path"
        /\ req[p].pc = "done"
        /\ req[p].status = 200
        /\ fs[req[p].path] = [owner |-> 0, file |-> req[p].seen]

\* C18: with /scan requests only, an answered upload is answered with 200
\* and with the report of the bytes that request saved.
C18_OwnUpload ==
    (\A q \in Requests : req[q].kind = "scan") =>
        \A p \in Requests :
            (req[p].pc = "done" /\ req[p].status # 400) =>
                /\ req[p].status = 200
                /\ req[p].results = ScanAlone(req[p].path, req[p].file)

\* C19: an answered /scan or /validate request has left no temp file of
\* its own, and once every request is answered no file any of them wrote
\* remains.
C19_TempRemoved ==
    /\ \A p \in Requests :
          (req[p].kind \in {"scan", "validate"} /\ req[p].pc = "done")
              => \A f \in HttpPaths : fs[f].owner # p
    /\ (\A p \in Requests : req[p].pc = "done")
          => \A f \in HttpPaths : fs[f].owner = 0

C19_Witness ==
    \E p, q \in Requests :
        /\ \A r \in Requests : req[r].pc = "done"
        /\ req[p].kind = "scan" /\ req[p].status = 500
        /\ req[q].kind = "validate" /\ req[q].status = 200
        /\ req[p].path = req[q].path
        /\ fs[req[p].path] = Absent

====
